---- MODULE Spec2Model ----
(***************************************************************************)
(* Verification model of puruspe (src/src/lib.rs): the regularized         *)
(* incomplete Gamma functions gammp / gammq with their three methods       *)
(* (gser, gcf, gammpapprox), the Gamma evaluator gamma_approx and          *)
(* factorial.                                                              *)
(*                                                                         *)
(* Number representations                                                  *)
(*  - a, x, z and every value derived from them by +, - and comparison are *)
(*    exact decimals with one fractional digit, held as integers in units  *)
(*    of 1/Scale (99.9 is 999).  A positive subnormal a (below             *)
(*    1/f64::MAX) is the pair a = 0, tiny = TRUE.                          *)
(*  - del and sum of gser are fixed-point numbers held as little-endian    *)
(*    limbs of 13 bits (6 fraction limbs, 2 integer limbs), or +inf.       *)
(*  - the usize of factorial is four little-endian limbs of 16 bits.       *)
(*  - values that come out of exp, ln, sin (the value a method returns,    *)
(*    the quadrature sum, the quadrature scale factor) are not computed:   *)
(*    they are chosen from small integer sets the first time the code      *)
(*    computes them and reused when the same pure expression is computed   *)
(*    again on the same arguments.                                         *)
(*  - d and c of gcf are abstracted to their magnitude class relative to   *)
(*    FPMIN; every arithmetic result may fall in either class.             *)
(***************************************************************************)
EXTENDS Integers, Sequences, FiniteSets, TLC

\* ---------------------------------------------------------------- constants

\* fixed-point resolution of a, x, z: one decimal digit
Scale == 10 ^ 1

\* 1f64 in units of 1/Scale
One == Scale

\* const ASWITCH: usize = 100
ASWITCH == 100

\* ---------------------------------------------------------------- bounds

\* gamma_approx is called with z in -MinZ .. MaxZ (units of 1/Scale)
MinZ == 30
MaxZ == 225
\* factorial is called with n in 0 .. MaxN
MaxN == 22
\* the value from which ap + 1 = ap in gser (2^53 in f64), in whole units
ApAbsorb == 300
\* iterations of the gcf loop explored
MaxCfIter == 3
\* the quadrature sum (a sum of non-negative terms, 0 on underflow)
MaxQSum == 2
\* the quadrature scale factor
MaxScaleVal == 2
\* the value a method (gser, gcf) returns, in units of 1/Scale
MaxMethodVal == 12

\* ---------------------------------------------------------------- limbs

\* Arithmetic on little-endian sequences of limbs.

\* the carry out of limb j of m * k
RECURSIVE MulCarry(_, _, _, _)
MulCarry(m, k, base, j) ==
    IF j = 0 THEN 0 ELSE (m[j] * k + MulCarry(m, k, base, j - 1)) \div base

\* m * k; the result has one more limb than m
MulLimbs(m, k, base) ==
    [j \in 1..(Len(m) + 1) |->
        IF j <= Len(m) THEN (m[j] * k + MulCarry(m, k, base, j - 1)) % base
        ELSE MulCarry(m, k, base, Len(m))]

\* the remainder of the limbs j and above of m, divided by k
RECURSIVE DivRem(_, _, _, _)
DivRem(m, k, base, j) ==
    IF j > Len(m) THEN 0 ELSE (DivRem(m, k, base, j + 1) * base + m[j]) % k

\* floor(m / k)
DivLimbs(m, k, base) ==
    [j \in 1..Len(m) |-> (DivRem(m, k, base, j + 1) * base + m[j]) \div k]

\* the carry out of limb j of m1 + m2
RECURSIVE AddCarry(_, _, _, _)
AddCarry(m1, m2, base, j) ==
    IF j = 0 THEN 0 ELSE (m1[j] + m2[j] + AddCarry(m1, m2, base, j - 1)) \div base

\* m1 + m2 for m1, m2 of equal length (the carry out of the top limb is dropped)
AddLimbs(m1, m2, base) ==
    [j \in 1..Len(m1) |-> (m1[j] + m2[j] + AddCarry(m1, m2, base, j - 1)) % base]

\* m1 < m2 on the limbs j and below, m1 and m2 of equal length
RECURSIVE LessFrom(_, _, _)
LessFrom(m1, m2, j) ==
    IF j = 0 THEN FALSE
    ELSE IF m1[j] # m2[j] THEN m1[j] < m2[j]
    ELSE LessFrom(m1, m2, j - 1)

LessLimbs(m1, m2) == LessFrom(m1, m2, Len(m1))

ZeroLimbs(k) == [j \in 1..k |-> 0]

\* ---------------------------------------------------------------- f64 in gser

\* limb base of the fixed-point numbers
LB == 2 ^ 13
\* limbs of a fixed-point number, the low FracLimbs of them the fraction
FpLimbs == 4 + 4
FracLimbs == FpLimbs - 2
\* EPS = f64::EPSILON = 2^-52 is a shift by 52 / 13 limbs
EpsLimbs == 52 \div 13

FpInf == [inf |-> TRUE, m |-> ZeroLimbs(FpLimbs)]
FpFin(m) == [inf |-> FALSE, m |-> m]
FpZero == FpFin(ZeroLimbs(FpLimbs))

\* the whole number v (0 <= v < LB) as a fixed-point number
FpInt(v) == FpFin([j \in 1..FpLimbs |-> IF j = FracLimbs + 1 THEN v ELSE 0])

\* 1f64 / a: +inf when a is subnormal (the quotient exceeds f64::MAX)
FpRecip(av, isTiny) ==
    IF isTiny THEN FpInf
    ELSE FpFin(DivLimbs(FpInt(Scale).m, av, LB))

\* f * (xv / apv) for xv, apv > 0 in units of 1/Scale: inf * positive = inf
FpMulRatio(f, xv, apv) ==
    IF f.inf THEN FpInf
    ELSE FpFin(SubSeq(DivLimbs(MulLimbs(f.m, xv, LB), apv, LB), 1, FpLimbs))

FpAdd(f, g) ==
    IF f.inf \/ g.inf THEN FpInf
    ELSE FpFin(AddLimbs(f.m, g.m, LB))

\* f * EPS: inf * EPS = inf
FpMulEps(f) ==
    IF f.inf THEN FpInf
    ELSE FpFin(SubSeq(f.m, EpsLimbs + 1, FpLimbs) \o ZeroLimbs(EpsLimbs))

\* f < g (both non-negative): inf < inf is false
FpLess(f, g) ==
    IF f.inf THEN FALSE
    ELSE IF g.inf THEN TRUE
    ELSE LessLimbs(f.m, g.m)

\* ---------------------------------------------------------------- usize

\* limb base and limb count of a 64-bit usize
WordBase == 2 ^ 16
WordLimbs == 64 \div 16

\* the usize v (0 <= v < WordBase)
Word(v) == [j \in 1..WordLimbs |-> IF j = 1 THEN v ELSE 0]

\* n! in exact arithmetic (WordLimbs + 2 limbs, enough for every n <= MaxN + 1)
RECURSIVE FactExact(_)
FactExact(k) ==
    IF k = 0 THEN Word(1) \o <<0, 0>>
    ELSE SubSeq(MulLimbs(FactExact(k - 1), k, WordBase), 1, WordLimbs + 2)

\* ---------------------------------------------------------------- state

VARIABLES
    api,     \* the entry point under evaluation: "incgamma", "gamma_approx", "factorial"
    pc,      \* the control location
    a, tiny, \* gammp/gammq argument a (units of 1/Scale; tiny: a positive subnormal)
    x,       \* gammp/gammq argument x (units of 1/Scale)
    call,    \* the dispatcher being evaluated on (a, x): "gammp", then "gammq"
    st,      \* per dispatcher: "idle", "running", "returned", "panicked"
    meth,    \* per dispatcher: the method entered ("none" when none was)
    res,     \* per dispatcher: the value returned (units of 1/Scale)
    retv,    \* the value the method called last returned
    memo,    \* the values of the transcendental expressions already computed on (a, x)
    ap, del, sum,    \* gser: its locals
    cfi, b, d, c,    \* gcf: loop counter i, b, and the magnitude classes of d and c
    q,       \* gammpapprox: its locals
    z0,      \* gamma_approx: the argument of the outermost call
    gstack,  \* gamma_approx: the arguments of the active calls, outermost first
    gcalls,  \* gamma_approx: every call made so far, as [z, branch]
    gres,    \* gamma_approx: the value returned by the call that returned last
    n, i, p, \* factorial: argument, loop variable, product
    muls,    \* factorial: multiplications performed
    ovf      \* factorial: "none", "wrapped" (release build), "panicked" (debug build)

vars == <<api, pc, a, tiny, x, call, st, meth, res, retv, memo, ap, del, sum,
          cfi, b, d, c, q, z0, gstack, gcalls, gres, n, i, p, muls, ovf>>

incVars == <<a, tiny, x, call, st, meth, res, retv, memo>>
gserVars == <<ap, del, sum>>
gcfVars == <<cfi, b, d, c>>
gammaVars == <<z0, gstack, gcalls, gres>>
factVars == <<n, i, p, muls, ovf>>

\* ---------------------------------------------------------------- inputs

\* a: -1, 0, 0.1, 0.5, 1, 2.5, 7, 99.9, 100, 100.5, 150, and a subnormal
AVals == {-One, 0, 1, One \div 2, One, 25, 7 * One,
          ASWITCH * One - 1, ASWITCH * One, ASWITCH * One + 5, 150 * One}
AInputs == {<<v, FALSE>> : v \in AVals} \cup {<<0, TRUE>>}

\* x: -0.5, 0, 0.5, 1, 1.5, 2, 3.5, 8, 100, 100.9, 140, 2000
XVals == {-5, 0, 5, 10, 15, 20, 35, 80, 1000, 1009, 1400, 20000}

Dispatchers == {"gammp", "gammq"}

NoMemo == [set |-> FALSE, v |-> 0, qsum |-> 0, sv |-> 0]
NoQuad == [a1 |-> 0, xu |-> 0, sum |-> 0, scale |-> [op |-> "none", args |-> <<>>],
           sv |-> 0, ans |-> 0, run |-> FALSE]
NoGres == [kind |-> "none", p |-> ZeroLimbs(WordLimbs), arg |-> 0, inner |-> "none"]

IdleInc ==
    /\ a = 0 /\ tiny = FALSE /\ x = 0 /\ call = "none"
    /\ st = [f \in Dispatchers |-> "idle"]
    /\ meth = [f \in Dispatchers |-> "none"]
    /\ res = [f \in Dispatchers |-> 0]
    /\ retv = 0 /\ memo = NoMemo
    /\ ap = 0 /\ del = FpZero /\ sum = FpZero
    /\ cfi = 0 /\ b = 0 /\ d = "norm" /\ c = "norm"
    /\ q = NoQuad

IdleGamma == z0 = 0 /\ gstack = <<>> /\ gcalls = <<>> /\ gres = NoGres

IdleFact == n = 0 /\ i = 0 /\ p = Word(0) /\ muls = 0 /\ ovf = "none"

InitInc ==
    /\ api = "incgamma" /\ pc = "entry"
    /\ \E av \in AInputs : a = av[1] /\ tiny = av[2]
    /\ x \in XVals
    /\ call = "gammp"
    /\ st = [f \in Dispatchers |-> IF f = "gammp" THEN "running" ELSE "idle"]
    /\ meth = [f \in Dispatchers |-> "none"]
    /\ res = [f \in Dispatchers |-> 0]
    /\ retv = 0 /\ memo = NoMemo
    /\ ap = 0 /\ del = FpZero /\ sum = FpZero
    /\ cfi = 0 /\ b = 0 /\ d = "norm" /\ c = "norm"
    /\ q = NoQuad
    /\ IdleGamma /\ IdleFact

InitGamma ==
    /\ api = "gamma_approx" /\ pc = "gamma"
    /\ z0 \in (0 - MinZ)..MaxZ
    /\ gstack = <<z0>> /\ gcalls = <<>> /\ gres = NoGres
    /\ IdleInc /\ IdleFact

InitFact ==
    /\ api = "factorial" /\ pc = "factorial"
    /\ n \in 0..MaxN
    /\ i = 0 /\ p = Word(0) /\ muls = 0 /\ ovf = "none"
    /\ IdleInc /\ IdleGamma

Init == InitInc \/ InitGamma \/ InitFact

\* ---------------------------------------------------------------- gammp, gammq

\* a > 0f64
APositive == a > 0 \/ tiny

\* variant of gammp_assert: || in place of &&
gammp_assert_or == x >= 0 \/ APositive

\* assert!(x >= 0f64 && a > 0f64, "Bad args in gammp")
gammp_assert == x >= 0 /\ APositive
gammq_assert == x >= 0 /\ APositive

\* variant of AsUsize: rounding to nearest in place of truncation
AsUsizeRound(v) == IF v <= 0 THEN 0 ELSE (v + Scale \div 2) \div Scale

\* v as usize: truncation toward zero, saturating at 0
AsUsize(v) == IF v <= 0 THEN 0 ELSE v \div Scale

\* x < a + 1f64
SeriesRegime == x < a + One

\* the if / else-if chain of gammp
gammp_method ==
    IF x = 0 THEN "zero"
    ELSE IF AsUsize(a) >= ASWITCH THEN "quad"
    ELSE IF SeriesRegime THEN "gser"
    ELSE "gcf"

\* variant of gammq_method: the quadrature test ahead of the x == 0 test
gammq_method_quadfirst ==
    IF AsUsize(a) >= ASWITCH THEN "quad"
    ELSE IF x = 0 THEN "zero"
    ELSE IF SeriesRegime THEN "gser"
    ELSE "gcf"

\* the if / else-if chain of gammq
gammq_method ==
    IF x = 0 THEN "zero"
    ELSE IF AsUsize(a) >= ASWITCH THEN "quad"
    ELSE IF SeriesRegime THEN "gser"
    ELSE "gcf"

\* what gammp returns from the value v of the method m
gammp_value(m, v) ==
    CASE m = "zero" -> 0
      [] m = "quad" -> v
      [] m = "gser" -> v
      [] m = "gcf"  -> One - v

\* what gammq returns from the value v of the method m
gammq_value(m, v) ==
    CASE m = "zero" -> One
      [] m = "quad" -> v
      [] m = "gser" -> One - v
      [] m = "gcf"  -> v

\* the assertion and the routing of the dispatcher f
Dispatch(f, ok, m) ==
    /\ pc = "entry" /\ call = f
    /\ IF ~ok
       THEN /\ st' = [st EXCEPT ![f] = "panicked"]
            /\ pc' = "exit"
            /\ UNCHANGED <<meth, res>>
       ELSE IF m = "zero"
       THEN /\ st' = [st EXCEPT ![f] = "returned"]
            /\ res' = [res EXCEPT ![f] = IF f = "gammp" THEN gammp_value(m, 0)
                                                        ELSE gammq_value(m, 0)]
            /\ pc' = "exit"
            /\ UNCHANGED meth
       ELSE /\ meth' = [meth EXCEPT ![f] = m]
            /\ pc' = m
            /\ UNCHANGED <<st, res>>
    /\ UNCHANGED <<api, a, tiny, x, call, retv, memo, q>>
    /\ UNCHANGED <<gserVars, gcfVars, gammaVars, factVars>>

gammp == Dispatch("gammp", gammp_assert, gammp_method)
gammq == Dispatch("gammq", gammq_assert, gammq_method)

\* the dispatcher returns what it makes of the method's value
Return ==
    /\ pc = "ret"
    /\ st' = [st EXCEPT ![call] = "returned"]
    /\ res' = [res EXCEPT ![call] = IF call = "gammp"
                                    THEN gammp_value(meth[call], retv)
                                    ELSE gammq_value(meth[call], retv)]
    /\ pc' = "exit"
    /\ UNCHANGED <<api, a, tiny, x, call, meth, retv, memo, q>>
    /\ UNCHANGED <<gserVars, gcfVars, gammaVars, factVars>>

\* gammp(a, x) has ended: gammq is evaluated on the same arguments
NextCall ==
    /\ pc = "exit"
    /\ IF call = "gammp"
       THEN /\ call' = "gammq"
            /\ st' = [st EXCEPT !["gammq"] = "running"]
            /\ pc' = "entry"
       ELSE /\ pc' = "done"
            /\ UNCHANGED <<call, st>>
    /\ UNCHANGED <<api, a, tiny, x, meth, res, retv, memo, q>>
    /\ UNCHANGED <<gserVars, gcfVars, gammaVars, factVars>>

\* the value of the transcendental factor exp(-x + a ln x - gln) times the sum
\* (gser) or times h (gcf): chosen when first computed on (a, x), the same
\* when computed again
MethodVals == 0..MaxMethodVal
Remembers(v) == memo.set => v = memo.v

\* ---------------------------------------------------------------- gser

\* let mut ap = a; let mut del = 1f64 / a; let mut sum = 1f64 / a;
gser_begin ==
    /\ pc = "gser"
    /\ ap' = a
    /\ del' = FpRecip(a, tiny)
    /\ sum' = FpRecip(a, tiny)
    /\ pc' = "gser_loop"
    /\ UNCHANGED <<api, incVars, q, gcfVars, gammaVars, factVars>>

\* ap += 1f64 (absorbed once ap has reached the value where ap + 1 = ap)
ApNext(v) == IF v + One > ApAbsorb * One THEN v ELSE v + One

\* del.abs() < sum.abs() * EPS
GserStop(dl, sm) == FpLess(dl, FpMulEps(sm))

\* one pass of the loop body; on the stopping test, the return
gser_iter ==
    /\ pc = "gser_loop"
    /\ \E ap2 \in {ApNext(ap)} :
       \E del2 \in {FpMulRatio(del, x, ap2)} :
       \E sum2 \in {FpAdd(sum, del2)} :
          /\ ap' = ap2
          /\ del' = del2
          /\ sum' = sum2
          /\ IF GserStop(del2, sum2)
             THEN \E v \in MethodVals :
                     /\ Remembers(v)
                     /\ retv' = v
                     /\ memo' = [memo EXCEPT !.set = TRUE, !.v = v]
                     /\ pc' = "ret"
             ELSE UNCHANGED <<pc, retv, memo>>
    /\ UNCHANGED <<api, a, tiny, x, call, st, meth, res, q>>
    /\ UNCHANGED <<gcfVars, gammaVars, factVars>>

\* ---------------------------------------------------------------- gcf

\* magnitude classes relative to FPMIN: "tiny" is |v| < FPMIN, "fpmin" is
\* exactly FPMIN, "norm" is every other value
ArithClasses == {"tiny", "norm"}
ClassOf(v) == IF v = 0 THEN "tiny" ELSE "norm"

\* let mut b = x + 1f64 - a;
InitialB == x + One - a

\* an = -i as f64 * (i as f64 - a)
An(k) == (0 - k) * (k * One - a)

\* variant of Clamp: the clamp left out
ClampNone(cls) == cls

\* if v.abs() < FPMIN { v = FPMIN; }
Clamp(cls) == IF cls = "tiny" THEN "fpmin" ELSE cls

\* b, c = 1 / FPMIN, d = 1 / b, h = d
gcf_begin ==
    /\ pc = "gcf"
    /\ b' = InitialB
    /\ c' = "norm"
    /\ d' = "norm"
    /\ cfi' = 0
    /\ pc' = "gcf_an"
    /\ UNCHANGED <<api, incVars, q, gserVars, gammaVars, factVars>>

\* an = ...; b += 2f64; d = an*d + b;
gcf_an ==
    /\ pc = "gcf_an"
    /\ cfi' = cfi + 1
    /\ b' = b + 2 * One
    /\ d' \in IF An(cfi + 1) = 0 THEN {ClassOf(b + 2 * One)} ELSE ArithClasses
    /\ pc' = "gcf_clampd"
    /\ UNCHANGED <<api, incVars, q, c, gserVars, gammaVars, factVars>>

\* if d.abs() < FPMIN { d = FPMIN; }
gcf_clampd ==
    /\ pc = "gcf_clampd"
    /\ d' = Clamp(d)
    /\ pc' = "gcf_c"
    /\ UNCHANGED <<api, incVars, q, cfi, b, c, gserVars, gammaVars, factVars>>

\* c = b + an / c;
gcf_c ==
    /\ pc = "gcf_c"
    /\ c' \in IF An(cfi) = 0 THEN {ClassOf(b)} ELSE ArithClasses
    /\ pc' = "gcf_clampc"
    /\ UNCHANGED <<api, incVars, q, cfi, b, d, gserVars, gammaVars, factVars>>

\* if c.abs() < FPMIN { c = FPMIN; }
gcf_clampc ==
    /\ pc = "gcf_clampc"
    /\ c' = Clamp(c)
    /\ pc' = "gcf_inv"
    /\ UNCHANGED <<api, incVars, q, cfi, b, d, gserVars, gammaVars, factVars>>

\* d = 1f64 / d;  (1 / FPMIN is normal, 1 / huge is below FPMIN)
gcf_inv ==
    /\ pc = "gcf_inv"
    /\ d' \in IF d = "norm" THEN ArithClasses ELSE {"norm"}
    /\ pc' = "gcf_test"
    /\ UNCHANGED <<api, incVars, q, cfi, b, c, gserVars, gammaVars, factVars>>

\* del = d * c; h *= del; if (del - 1).abs() < EPS { break; } and the return
gcf_test ==
    /\ pc = "gcf_test"
    /\ \E brk \in BOOLEAN :
          IF brk
          THEN \E v \in MethodVals :
                  /\ Remembers(v)
                  /\ retv' = v
                  /\ memo' = [memo EXCEPT !.set = TRUE, !.v = v]
                  /\ pc' = "ret"
          ELSE /\ cfi < MaxCfIter
               /\ pc' = "gcf_an"
               /\ UNCHANGED <<retv, memo>>
    /\ UNCHANGED <<api, a, tiny, x, call, st, meth, res, q>>
    /\ UNCHANGED <<gcfVars, gserVars, gammaVars, factVars>>

\* ---------------------------------------------------------------- gammpapprox

\* expressions over the locals a1, lna1, gln, kept as trees
T(op, args) == [op |-> op, args |-> args]
Leaf(name) == T(name, <<>>)

\* the factor that multiplies sum * (xu - x) in `let ans = ...`:
\* (a1 * (lna1 - 1f64).exp() - gln)
ScaleExpr ==
    T("sub", << T("mul", << Leaf("a1"),
                            T("exp", << T("sub", << Leaf("lna1"), Leaf("one") >>) >>) >>),
                Leaf("gln") >>)

\* floor(sqrt(v))
RECURSIVE IsqrtFrom(_, _)
IsqrtFrom(v, r) == IF (r + 1) * (r + 1) > v THEN r ELSE IsqrtFrom(v, r + 1)
Isqrt(v) == IsqrtFrom(v, 0)

Max(u, v) == IF u >= v THEN u ELSE v
Min(u, v) == IF u <= v THEN u ELSE v

\* a1.sqrt() in units of 1/Scale
Sqrta1(a1) == Isqrt(a1 * Scale)

\* let xu = if x > a1 { ... } else { ... };
Xu(a1) ==
    IF x > a1
    THEN Max(a1 + (115 * Sqrta1(a1)) \div 10, x + 6 * Sqrta1(a1))
    ELSE Max(0, Min(a1 - (75 * Sqrta1(a1)) \div 10, x - 5 * Sqrta1(a1)))

\* match psig { IncGamma::P => ..., IncGamma::Q => ... }
QuadP(ans) == IF ans > 0 THEN One - ans ELSE 0 - ans
QuadQ(ans) == IF ans >= 0 THEN ans ELSE One + ans

\* every term W[j] * exp(-(t-a1) + a1*(t.ln() - lna1)) of the quadrature sum
\* underflows to 0: with x >= 8 * a1 every node t >= x has exponent
\* a1 * (ln r - r + 1) <= -t / 2 for r = t / a1 >= 8, below -746 once x > 1492
SumUnderflows(a1) == x >= 8 * a1 /\ x > 1492 * One

\* for j in 0 .. NGAU { ... sum += W[j] * (...).exp(); }: a sum of
\* non-negative terms, 0 when every term underflows, positive otherwise
QuadSums(a1) == IF SumUnderflows(a1) THEN {0} ELSE 1..MaxQSum

\* gammpapprox(a, x, psig): the quadrature sum qs and the value sv of the
\* scale factor (positive for a >= 100) are chosen when first computed on (a, x)
gammpapprox ==
    /\ pc = "quad"
    /\ LET a1 == a - One
           xu == Xu(a1)
       IN  \E qs \in QuadSums(a1), sv \in 1..MaxScaleVal :
              /\ memo.set => (qs = memo.qsum /\ sv = memo.sv)
              /\ LET ans == qs * (xu - x) * sv
                 IN  /\ q' = [a1 |-> a1, xu |-> xu, sum |-> qs,
                              scale |-> ScaleExpr,
                              sv |-> sv, ans |-> ans, run |-> TRUE]
                     /\ retv' = IF call = "gammp" THEN QuadP(ans) ELSE QuadQ(ans)
              /\ memo' = [memo EXCEPT !.set = TRUE, !.qsum = qs, !.sv = sv]
    /\ pc' = "ret"
    /\ UNCHANGED <<api, a, tiny, x, call, st, meth, res>>
    /\ UNCHANGED <<gserVars, gcfVars, gammaVars, factVars>>

\* ---------------------------------------------------------------- factorial

\* let mut p = 1usize;
factorial_begin ==
    /\ pc = "factorial"
    /\ i' = 1
    /\ p' = Word(1)
    /\ muls' = 0
    /\ pc' = "factorial_loop"
    /\ UNCHANGED <<api, n, ovf, incVars, q, gserVars, gcfVars, gammaVars>>

\* variant of InRange: the range 1..n
InRangeShort(k, m) == k < m

\* the range 1..(n + 1) still holds i
InRange(k, m) == k < m + 1

\* factorial(..) as f64, returned by gamma_approx
FactorialResult(w) == [kind |-> "factorial", p |-> w, arg |-> 0, inner |-> "none"]

\* for i in 1..(n + 1) { p *= i; }  then p.  An overflowing multiplication
\* panics in a build with overflow checks and wraps in one without.
factorial_iter ==
    /\ pc = "factorial_loop"
    /\ IF InRange(i, n)
       THEN LET r == MulLimbs(p, i, WordBase)
                over == r[WordLimbs + 1] # 0
            IN  \E how \in (IF ~over THEN {ovf}
                            ELSE IF ovf = "none" THEN {"wrapped", "panicked"}
                            ELSE {ovf}) :
                   /\ ovf' = how
                   /\ IF over /\ how = "panicked"
                      THEN pc' = "panic" /\ UNCHANGED <<i, p, muls>>
                      ELSE /\ p' = SubSeq(r, 1, WordLimbs)
                           /\ i' = i + 1
                           /\ muls' = muls + 1
                           /\ UNCHANGED pc
                   /\ UNCHANGED gres
       ELSE /\ pc' = IF api = "factorial" THEN "done" ELSE "gamma_ret"
            /\ gres' = IF api = "factorial" THEN gres ELSE FactorialResult(p)
            /\ UNCHANGED <<i, p, muls, ovf>>
    /\ UNCHANGED <<api, n, incVars, q, gserVars, gcfVars, z0, gstack, gcalls>>

\* ---------------------------------------------------------------- gamma_approx

\* 0.5
Half == One \div 2

\* z > 1f64 and z - ((z as usize) as f64) == 0f64
FactorialBranch(z) == z > One /\ z - AsUsize(z) * Scale = 0

\* variant of ReflectBranch: z <= 0.5
ReflectBranchLe(z) == z <= One \div 2

\* z < 0.5
ReflectBranch(z) == z < Half

\* the argument of the recursive call: 1f64 - z
ReflectArg(z) == One - z

LanczosResult(z) == [kind |-> "lanczos", p |-> ZeroLimbs(WordLimbs), arg |-> z, inner |-> "none"]
ReflectResult(z, inner) ==
    [kind |-> "reflect", p |-> ZeroLimbs(WordLimbs), arg |-> z, inner |-> inner.kind]

\* the body of gamma_approx for the innermost active call
gamma_approx ==
    /\ pc = "gamma"
    /\ LET z == gstack[Len(gstack)]
       IN  IF FactorialBranch(z)
           THEN /\ gcalls' = Append(gcalls, [z |-> z, branch |-> "factorial"])
                /\ n' = AsUsize(z) - 1
                /\ pc' = "factorial"
                /\ UNCHANGED <<gstack, gres>>
           ELSE IF ReflectBranch(z)
           THEN /\ gcalls' = Append(gcalls, [z |-> z, branch |-> "reflect"])
                /\ gstack' = Append(gstack, ReflectArg(z))
                /\ UNCHANGED <<pc, n, gres>>
           ELSE /\ gcalls' = Append(gcalls, [z |-> z, branch |-> "lanczos"])
                /\ gres' = LanczosResult(z)
                /\ pc' = "gamma_ret"
                /\ UNCHANGED <<gstack, n>>
    /\ UNCHANGED <<api, z0, i, p, muls, ovf, incVars, q, gserVars, gcfVars>>

\* the innermost call returns; a caller is in its reflection branch and
\* returns PI / ((PI * z).sin() * gamma_approx(1 - z)) next
gamma_return ==
    /\ pc = "gamma_ret"
    /\ gstack' = SubSeq(gstack, 1, Len(gstack) - 1)
    /\ IF Len(gstack) = 1
       THEN pc' = "done" /\ UNCHANGED gres
       ELSE /\ gres' = ReflectResult(gstack[Len(gstack) - 1], gres)
            /\ UNCHANGED pc
    /\ UNCHANGED <<api, z0, gcalls, factVars, incVars, q, gserVars, gcfVars>>

\* ---------------------------------------------------------------- specification

Next ==
    \/ gammp
    \/ gammq
    \/ Return
    \/ NextCall
    \/ gser_begin
    \/ gser_iter
    \/ gcf_begin
    \/ gcf_an
    \/ gcf_clampd
    \/ gcf_c
    \/ gcf_clampc
    \/ gcf_inv
    \/ gcf_test
    \/ gammpapprox
    \/ factorial_begin
    \/ factorial_iter
    \/ gamma_approx
    \/ gamma_return

Spec == Init /\ [][Next]_vars

\* a loop that can take its next pass takes it: nothing suspends a call
FairSpec ==
    /\ Spec
    /\ WF_vars(gser_begin \/ gser_iter)
    /\ WF_vars(factorial_begin \/ factorial_iter)

\* ---------------------------------------------------------------- properties

\* the arguments violate a > 0 and x >= 0
ArgsInvalid == (a <= 0 /\ ~tiny) \/ x < 0

MethodLocations ==
    {"quad", "gser", "gser_loop", "gcf", "gcf_an", "gcf_clampd", "gcf_c",
     "gcf_clampc", "gcf_inv", "gcf_test", "ret"}

\* C1: with a <= 0 or x < 0, gammp and gammq enter no method, never return a
\* value and end in the precondition failure; with a > 0 and x >= 0 neither
\* fails the precondition check.
C1_Precondition ==
    api = "incgamma" =>
        \A f \in Dispatchers :
            /\ ArgsInvalid =>
                  /\ meth[f] = "none"
                  /\ st[f] # "returned"
                  /\ pc \notin MethodLocations
                  /\ (pc = "done" \/ (pc = "exit" /\ call = f)) => st[f] = "panicked"
            /\ ~ArgsInvalid => st[f] # "panicked"

C1_Witness ==
    /\ api = "incgamma" /\ pc = "done" /\ ArgsInvalid
    /\ st["gammp"] = "panicked" /\ st["gammq"] = "panicked"

\* C2: for a > 0 and x >= 0, once both dispatchers have returned,
\* gammp(a, x) + gammq(a, x) = 1, whatever the quadrature result ans is.
C2_Complement ==
    (api = "incgamma" /\ pc = "done" /\ ~ArgsInvalid) =>
        res["gammp"] + res["gammq"] = One

\* C3: for a > 0 and x = 0, gammp returns 0 and gammq returns 1 and neither
\* enters the series, the continued fraction or the quadrature, also when
\* a >= 100.
C3_ZeroBoundary ==
    (api = "incgamma" /\ ~ArgsInvalid /\ x = 0) =>
        /\ pc \notin MethodLocations
        /\ \A f \in Dispatchers : meth[f] = "none" /\ st[f] # "panicked"
        /\ st["gammp"] = "returned" => res["gammp"] = 0
        /\ st["gammq"] = "returned" => res["gammq"] = One
        /\ pc = "done" => st["gammp"] = "returned" /\ st["gammq"] = "returned"

C3_Witness ==
    /\ api = "incgamma" /\ pc = "done" /\ x = 0 /\ a >= ASWITCH * One
    /\ res["gammp"] = 0 /\ res["gammq"] = One
    /\ st["gammp"] = "returned" /\ st["gammq"] = "returned"

\* the routing table of the specification, with the real-valued test a >= 100
RoutingTable ==
    IF a >= ASWITCH * One THEN "quad"
    ELSE IF x < a + One THEN "gser"
    ELSE "gcf"

\* C4: for a > 0 and x > 0, gammp and gammq enter the method of the routing
\* table: quadrature exactly when a >= 100, else the series when x < a + 1,
\* else the continued fraction.
C4_Routing ==
    (api = "incgamma" /\ ~ArgsInvalid /\ x > 0) =>
        \A f \in Dispatchers :
            /\ meth[f] # "none" => meth[f] = RoutingTable
            /\ (st[f] = "returned" \/ (st[f] = "running" /\ pc # "entry"))
                  => meth[f] = RoutingTable

C4_Witness ==
    /\ api = "incgamma" /\ pc = "done" /\ a = ASWITCH * One - 1 /\ x > a + One
    /\ meth["gammp"] = "gcf" /\ meth["gammq"] = "gcf"

\* n is an integer argument of gamma_approx with 1 <= n <= 20
IntegerArg(zv) == zv % Scale = 0 /\ 1 <= zv \div Scale /\ zv \div Scale <= 20

\* C5: for every integer n with 1 <= n <= 20, gamma_approx(n) takes the
\* factorial branch, makes no other call and returns factorial(n - 1).
C5_IntegerGamma ==
    (api = "gamma_approx" /\ pc = "done" /\ IntegerArg(z0)) =>
        /\ gcalls = << [z |-> z0, branch |-> "factorial"] >>
        /\ gres.kind = "factorial"
        /\ gres.p \o <<0, 0>> = FactExact(z0 \div Scale - 1)

\* n! fits the 64-bit word
FitsWord(k) == \A j \in (WordLimbs + 1)..Len(FactExact(k)) : FactExact(k)[j] = 0

\* C6: for every n whose n! fits the 64-bit word (0 <= n <= 20), factorial(n)
\* terminates and returns n! after exactly n multiplications.
C6_Factorial ==
    (api = "factorial" /\ pc = "factorial" /\ FitsWord(n)) ~>
        (pc = "done" /\ p \o <<0, 0>> = FactExact(n) /\ muls = n /\ ovf = "none")

C6_Witness ==
    /\ api = "factorial" /\ pc = "done" /\ n = 20 /\ muls = 20
    /\ FitsWord(20) /\ ~FitsWord(21)
    /\ p \o <<0, 0>> = FactExact(20)

\* C7: gamma_approx(z) with z < 0.5 makes exactly one recursive call, on
\* 1 - z >= 0.5, which takes the factorial or the Lanczos branch; no call of
\* gamma_approx is ever nested deeper than one level.
C7_Reflection ==
    api = "gamma_approx" =>
        /\ Len(gstack) <= 2
        /\ Len(gcalls) <= 2
        /\ gcalls # <<>> =>
              /\ gcalls[1].z = z0
              /\ (gcalls[1].branch = "reflect") <=> (z0 < Half)
        /\ Len(gcalls) = 2 =>
              /\ gcalls[2].z = One - z0
              /\ gcalls[2].z >= Half
              /\ gcalls[2].branch \in {"factorial", "lanczos"}
        /\ pc = "done" => Len(gcalls) = IF z0 < Half THEN 2 ELSE 1

C7_Witness ==
    /\ api = "gamma_approx" /\ pc = "done" /\ z0 < Half
    /\ Len(gcalls) = 2 /\ gcalls[2].branch = "factorial"
    /\ gres.kind = "reflect"

\* the scale factor of the specification: exp(a1 * (ln a1 - 1) - lnGamma(a))
IntendedScale ==
    T("exp", << T("sub", << T("mul", << Leaf("a1"),
                                        T("sub", << Leaf("lna1"), Leaf("one") >>) >>),
                            Leaf("gln") >>) >>)

Sgn(v) == IF v > 0 THEN 1 ELSE IF v < 0 THEN 0 - 1 ELSE 0

\* C8: in gammpapprox, ans = sum * (xu - x) * exp(a1 * (ln a1 - 1) - lnGamma(a)):
\* the factor is one exponential of the whole quantity, and with a positive
\* sum ans has the sign of xu - x.
C8_Scale ==
    q.run =>
        /\ q.scale = IntendedScale
        /\ q.sum > 0 => Sgn(q.ans) = Sgn(q.xu - x)

GcfLocations ==
    {"gcf", "gcf_an", "gcf_clampd", "gcf_c", "gcf_clampc", "gcf_inv", "gcf_test"}

C10_GserTerminates == (pc = "gser") ~> (pc = "ret")

====
